---- MODULE Spec2Model ----
(***************************************************************************)
(* Model of src/server.cpp: the incremental HTTP/1.1 header parser          *)
(* (http11_header_parser), the request parser wrapped around it             *)
(* (http_request_parser) and the per-connection handler thread of main().   *)
(*                                                                          *)
(* A std::string is a sequence of bytes (their ASCII codes).  Positions are *)
(* 0-based as in the source; std::string::npos is the value NPOS.           *)
(***************************************************************************)
EXTENDS Integers, Sequences, FiniteSets, TLC

VARIABLES
    rest,       \* bytes of the input stream not yet handed to push_chunk
    pushed,     \* concatenation of every chunk handed to push_chunk so far
    chunk,      \* argument of the latest push_chunk call
    hp,         \* an http11_header_parser driven directly
    rp,         \* an http_request_parser fed the stream chunk by chunk
    whole,      \* an http_request_parser fed the stream in one push_chunk
    thrown,     \* the parsers ("rp", "whole") whose push_chunk threw
    running,    \* the server process has not been terminated
    pc,         \* per connection: where its handler thread stands
    peer,       \* per connection: the segments its peer will still send
    peer_closed,\* per connection: the peer has closed its end
    req_parse,  \* per connection: the handler's http_request_parser
    n,          \* per connection: <<value of n>> once read has returned
    res,        \* per connection: the response the handler composed
    written,    \* per connection: <<what write returned>> once it returned
    fd_open     \* per connection: connid is an open descriptor

parser_vars == <<rest, pushed, chunk, hp, rp, whole, thrown>>

conn_vars ==
    <<running, pc, peer, peer_closed, req_parse, n, res, written, fd_open>>

vars ==
    <<rest, pushed, chunk, hp, rp, whole, thrown,
      running, pc, peer, peer_closed, req_parse, n, res, written, fd_open>>

----------------------------------------------------------------------------
\* Bounds of the model.

\* every byte string over FreeBytes of length 1..MaxFree is an input stream
MaxFree == 5

\* a function that flows off its end without a return statement hands its
\* caller whatever the build left in the return register: any of 0..MaxGarbage
MaxGarbage == 8

\* connections the accept loop accepts
MaxConns == 2

----------------------------------------------------------------------------
\* Byte strings of the source and the input streams of the model.

\* std::string::npos
NPOS == -1

\* "\r\n"
CRLF == <<13, 10>>

\* "\r\n\r\n"
TERMINATOR == <<13, 10, 13, 10>>

\* ": "
COLON_SP == <<58, 32>>

\* "content-length"
KEY_CONTENT_LENGTH ==
    <<99, 111, 110, 116, 101, 110, 116, 45, 108, 101, 110, 103, 116, 104>>

\* "host"
KEY_HOST == <<104, 111, 115, 116>>

\* "x"
VAL_X == <<120>>

\* "hello"
HELLO == <<104, 101, 108, 108, 111>>

\* "GET / HTTP/1.1\r\nHost: x\r\n\r\nhello"
REQ_HOST_HELLO ==
    <<71, 69, 84, 32, 47, 32, 72, 84, 84, 80, 47, 49, 46, 49, 13, 10, 72, 111,
    115, 116, 58, 32, 120, 13, 10, 13, 10, 104, 101, 108, 108, 111>>

\* "GET / HTTP/1.1\r\n\r\n"
REQ_BARE ==
    <<71, 69, 84, 32, 47, 32, 72, 84, 84, 80, 47, 49, 46, 49, 13, 10, 13, 10>>

\* "GET /\r\nHost: x\r\n\r\n"
REQ_HOST ==
    <<71, 69, 84, 32, 47, 13, 10, 72, 111, 115, 116, 58, 32, 120, 13, 10, 13,
    10>>

\* "POST /\r\nContent-Length: 5\r\n\r\nhello"
REQ_CL5 ==
    <<80, 79, 83, 84, 32, 47, 13, 10, 67, 111, 110, 116, 101, 110, 116, 45, 76,
    101, 110, 103, 116, 104, 58, 32, 53, 13, 10, 13, 10, 104, 101, 108, 108,
    111>>

\* "POST /\r\ncontent-length: 5\r\n\r\nhelloXY"
REQ_CL5_OVER ==
    <<80, 79, 83, 84, 32, 47, 13, 10, 99, 111, 110, 116, 101, 110, 116, 45, 108,
    101, 110, 103, 116, 104, 58, 32, 53, 13, 10, 13, 10, 104, 101, 108, 108,
    111, 88, 89>>

\* "PUT /\r\nA: 1\r\nCONTENT-LENGTH: 9\r\na: 2\r\nContent-length: 2\r\n\r\nab"
REQ_CL2_DUP ==
    <<80, 85, 84, 32, 47, 13, 10, 65, 58, 32, 49, 13, 10, 67, 79, 78, 84, 69,
    78, 84, 45, 76, 69, 78, 71, 84, 72, 58, 32, 57, 13, 10, 97, 58, 32, 50, 13,
    10, 67, 111, 110, 116, 101, 110, 116, 45, 108, 101, 110, 103, 116, 104, 58,
    32, 50, 13, 10, 13, 10, 97, 98>>

\* "GET /\r\nnocolon\r\nContent-Length: x\r\n\r\nab"
REQ_CL_BAD ==
    <<71, 69, 84, 32, 47, 13, 10, 110, 111, 99, 111, 108, 111, 110, 13, 10, 67,
    111, 110, 116, 101, 110, 116, 45, 76, 101, 110, 103, 116, 104, 58, 32, 120,
    13, 10, 13, 10, 97, 98>>

\* "GET /\r\nContent-Length: 99999999999\r\n\r\n"
REQ_CL_HUGE ==
    <<71, 69, 84, 32, 47, 13, 10, 67, 111, 110, 116, 101, 110, 116, 45, 76, 101,
    110, 103, 116, 104, 58, 32, 57, 57, 57, 57, 57, 57, 57, 57, 57, 57, 57, 13,
    10, 13, 10>>

\* "GET /\r\nContent-Length: -1\r\n\r\nab"
REQ_CL_NEG ==
    <<71, 69, 84, 32, 47, 13, 10, 67, 111, 110, 116, 101, 110, 116, 45, 76, 101,
    110, 103, 116, 104, 58, 32, 45, 49, 13, 10, 13, 10, 97, 98>>

\* "PING\r\nHost:x\r\n\r\n"
REQ_NOSPACE ==
    <<80, 73, 78, 71, 13, 10, 72, 111, 115, 116, 58, 120, 13, 10, 13, 10>>

\* "GET /\r\n\r\n"
CONN_GET == <<71, 69, 84, 32, 47, 13, 10, 13, 10>>

\* "P\r\ncontent-length: 1\r\n\r\nab"
CONN_POST ==
    <<80, 13, 10, 99, 111, 110, 116, 101, 110, 116, 45, 108, 101, 110, 103, 116,
    104, 58, 32, 49, 13, 10, 13, 10, 97, 98>>

\* "HTTP/1.1 200 OK\r\nServer: my_server\r\nConnection: close\r\nContent-length: "
RES_HEAD ==
    <<72, 84, 84, 80, 47, 49, 46, 49, 32, 50, 48, 48, 32, 79, 75, 13, 10, 83,
    101, 114, 118, 101, 114, 58, 32, 109, 121, 95, 115, 101, 114, 118, 101, 114,
    13, 10, 67, 111, 110, 110, 101, 99, 116, 105, 111, 110, 58, 32, 99, 108,
    111, 115, 101, 13, 10, 67, 111, 110, 116, 101, 110, 116, 45, 108, 101, 110,
    103, 116, 104, 58, 32>>

\* sizeof(buf)
BufSize == 1024

\* "POST /\r\nCONTENT-LENGTH: 5\r\n\r\nhello"
REQ_CL5_UPPER ==
    <<80, 79, 83, 84, 32, 47, 13, 10, 67, 79, 78, 84, 69, 78, 84, 45, 76, 69,
    78, 71, 84, 72, 58, 32, 53, 13, 10, 13, 10, 104, 101, 108, 108, 111>>

\* "GET /\r\nk: 1\r\nK: 2\r\nkk: 9\r\nk: 3\r\nK:4\r\n\r\n"
REQ_DUP3 ==
    <<71, 69, 84, 32, 47, 13, 10, 107, 58, 32, 49, 13, 10, 75, 58, 32, 50, 13,
    10, 107, 107, 58, 32, 57, 13, 10, 107, 58, 32, 51, 13, 10, 75, 58, 52, 13,
    10, 13, 10>>

\* header blocks fed to the header parser alone
HeaderOnly == { REQ_CL2_DUP, REQ_CL5_UPPER, REQ_DUP3 }

\* the requests a peer sends
Requests ==
    { REQ_HOST_HELLO, REQ_BARE, REQ_HOST, REQ_CL5, REQ_CL5_OVER, REQ_CL2_DUP,
      REQ_CL_BAD, REQ_CL_HUGE, REQ_CL_NEG, REQ_NOSPACE }

\* '\r', '\n' and 'a': enough to build every near miss of the terminator
FreeBytes == {13, 10, 97}

RECURSIVE StringsUpTo(_)
StringsUpTo(len) ==
    IF len = 0 THEN { <<>> }
    ELSE LET shorter == StringsUpTo(len - 1)
         IN shorter \cup { Append(s, b) : s \in shorter, b \in FreeBytes }

\* the byte streams the model feeds to the header parser
Streams == Requests \cup HeaderOnly \cup (StringsUpTo(MaxFree) \ { <<>> })

\* the byte streams the model feeds to the request parsers
RequestStreams == Streams \ HeaderOnly

----------------------------------------------------------------------------
\* std::string operations used by the parsers.

SetMin(S) == CHOOSE x \in S : \A y \in S : x <= y

\* s.find(needle, from): the first position >= from where needle occurs
Find(s, needle, from) ==
    LET hits == { i \in from..(Len(s) - Len(needle)) :
                      SubSeq(s, i + 1, i + Len(needle)) = needle }
    IN  IF hits = {} THEN NPOS ELSE SetMin(hits)

\* s.substr(pos, count) for pos <= s.size(); count = npos takes the rest
Substr(s, pos, count) ==
    LET take == IF count = NPOS \/ count > Len(s) - pos
                THEN Len(s) - pos ELSE count
    IN  SubSeq(s, pos + 1, pos + take)

\* mutant: the key is stored as it was sent
ToLowerAscii_Identity(c) == c

\* mutant: the range test leaves out 'A'
ToLowerAscii_ExclusiveA(c) == IF 65 < c /\ c <= 90 THEN c + (97 - 65) ELSE c

\* the lambda of std::transform in _extract_headers
ToLowerAscii(c) == IF 65 <= c /\ c <= 90 THEN c + (97 - 65) ELSE c

LowerKey(key) == [i \in 1..Len(key) |-> ToLowerAscii(key[i])]

\* StringMap, an std::unordered_map<std::string, std::string>
EmptyMap == [k \in {} |-> <<>>]

\* mutant: insert, which leaves an existing entry as it is
InsertOrAssign_KeepFirst(m, key, value) ==
    IF key \in DOMAIN m THEN m
    ELSE [k \in DOMAIN m \cup {key} |-> IF k = key THEN value ELSE m[k]]

InsertOrAssign(m, key, value) ==
    [k \in DOMAIN m \cup {key} |-> IF k = key THEN value ELSE m[k]]

----------------------------------------------------------------------------
\* struct http11_header_parser

NewHeaderParser ==
    [ m_header          |-> <<>>,
      m_header_line     |-> <<>>,
      m_header_keys     |-> EmptyMap,
      m_body            |-> <<>>,
      m_header_finished |-> FALSE ]

\* the while loop of _extract_headers, entered with pos as the loop test sees it
RECURSIVE ExtractLoop(_, _, _)
ExtractLoop(m_header, pos, keys) ==
    IF pos = NPOS THEN keys
    ELSE LET p        == pos + 2
             next_pos == Find(m_header, CRLF, p)
             line_len == IF next_pos # NPOS THEN next_pos - p ELSE NPOS
             line     == Substr(m_header, p, line_len)
             colon    == Find(line, COLON_SP, 0)
             keys2    == IF colon # NPOS
                         THEN InsertOrAssign(keys,
                                  LowerKey(Substr(line, 0, colon)),
                                  Substr(line, colon + 2, NPOS))
                         ELSE keys
         IN  ExtractLoop(m_header, next_pos, keys2)

\* http11_header_parser::_extract_headers; m_header_line is not assigned
extract_headers(p) ==
    [p EXCEPT !.m_header_keys =
        ExtractLoop(p.m_header, Find(p.m_header, CRLF, 0), p.m_header_keys)]

\* mutant: the accumulator is cut behind the terminator, not in front of it
append_chunk_keepterm(p, c) ==
    LET appended   == p.m_header \o c
        header_len == Find(appended, TERMINATOR, 0)
    IN  IF header_len # NPOS
        THEN extract_headers(
               [p EXCEPT !.m_header_finished = TRUE,
                         !.m_body   = Substr(appended, header_len + 4, NPOS),
                         !.m_header = SubSeq(appended, 1, header_len + 4)])
        ELSE [p EXCEPT !.m_header = appended]

\* mutant: the extra body starts two bytes early, inside the terminator
append_chunk_earlybody(p, c) ==
    LET appended   == p.m_header \o c
        header_len == Find(appended, TERMINATOR, 0)
    IN  IF header_len # NPOS
        THEN extract_headers(
               [p EXCEPT !.m_header_finished = TRUE,
                         !.m_body   = Substr(appended, header_len + 2, NPOS),
                         !.m_header = SubSeq(appended, 1, header_len)])
        ELSE [p EXCEPT !.m_header = appended]

\* lines 158-166 of http11_header_parser::push_chunk
append_chunk(p, c) ==
    LET appended   == p.m_header \o c
        header_len == Find(appended, TERMINATOR, 0)
    IN  IF header_len # NPOS
        THEN extract_headers(
               [p EXCEPT !.m_header_finished = TRUE,
                         !.m_body   = Substr(appended, header_len + 4, NPOS),
                         !.m_header = SubSeq(appended, 1, header_len)])
        ELSE [p EXCEPT !.m_header = appended]

\* mutant: the end of the header block is taken to be the first "\r\n"
header_push_chunk_crlf(p, c) ==
    IF ~p.m_header_finished
    THEN LET appended   == p.m_header \o c
             header_len == Find(appended, CRLF, 0)
         IN  IF header_len # NPOS
             THEN extract_headers(
                    [p EXCEPT !.m_header_finished = TRUE,
                              !.m_body   = Substr(appended, header_len + 2, NPOS),
                              !.m_header = SubSeq(appended, 1, header_len)])
             ELSE [p EXCEPT !.m_header = appended]
    ELSE p

\* mutant: the test of m_header_finished is missing
header_push_chunk_unguarded(p, c) == append_chunk(p, c)

\* http11_header_parser::push_chunk
header_push_chunk(p, c) ==
    IF ~p.m_header_finished THEN append_chunk(p, c) ELSE p

header_finished(p) == p.m_header_finished

----------------------------------------------------------------------------
\* struct http_request_parser<http11_header_parser>

NewRequestParser ==
    [ m_header_parser  |-> NewHeaderParser,
      m_content_length |-> 0,
      m_body_finished  |-> FALSE ]

ConnIds == 1..MaxConns

\* no connection accepted yet
NoConns ==
    /\ running = TRUE
    /\ pc = [c \in ConnIds |-> "idle"]
    /\ peer = [c \in ConnIds |-> <<>>]
    /\ peer_closed = [c \in ConnIds |-> FALSE]
    /\ req_parse = [c \in ConnIds |-> NewRequestParser]
    /\ n = [c \in ConnIds |-> <<>>]
    /\ res = [c \in ConnIds |-> <<>>]
    /\ written = [c \in ConnIds |-> <<>>]
    /\ fd_open = [c \in ConnIds |-> FALSE]

request_finished(r) == r.m_body_finished

body(r) == r.m_header_parser.m_body

headers_raw(r) == r.m_header_parser.m_header

headers(r) == r.m_header_parser.m_header_keys

\* "GET" and " "
GET == <<71, 69, 84>>

SPACE == <<32>>

\* http_request_parser::method(): the headline up to its first space
method(r) ==
    LET headline == r.m_header_parser.m_header_line
        space == Find(headline, SPACE, 0)
    IN  IF space # NPOS THEN Substr(headline, 0, space) ELSE GET

\* isspace in the "C" locale: ' ', \t, \n, \v, \f, \r
IsSpace(c) == c \in {32, 9, 10, 11, 12, 13}

IsDigit(c) == 48 <= c /\ c <= 57

\* the digits strtol consumes from position i on, accumulated with the sign;
\* a value outside the range of int is reported as out_of_range
RECURSIVE StoiDigits(_, _, _, _)
StoiDigits(str, i, sign, acc) ==
    IF i > Len(str) \/ ~IsDigit(str[i])
    THEN [kind |-> "value", v |-> acc]
    ELSE LET d == str[i] - 48
         IN  IF \/ sign = 1  /\ (acc > 214748364 \/ (acc = 214748364 /\ d > 7))
                \/ sign = -1 /\ (acc < -214748364 \/ (acc = -214748364 /\ d > 8))
             THEN [kind |-> "out_of_range", v |-> 0]
             ELSE StoiDigits(str, i + 1, sign, acc * 10 + sign * d)

RECURSIVE SkipSpace(_, _)
SkipSpace(str, i) ==
    IF i <= Len(str) /\ IsSpace(str[i]) THEN SkipSpace(str, i + 1) ELSE i

\* std::stoi(str): leading white space, an optional sign, decimal digits
Stoi(str) ==
    LET i    == SkipSpace(str, 1)
        sgn  == IF i <= Len(str) /\ str[i] = 45 THEN -1 ELSE 1
        j    == IF i <= Len(str) /\ str[i] \in {43, 45} THEN i + 1 ELSE i
    IN  IF j > Len(str) \/ ~IsDigit(str[j])
        THEN [kind |-> "invalid_argument", v |-> 0]
        ELSE StoiDigits(str, j, sgn, 0)

\* the values a call can yield that returns by flowing off the end of
\* _extract_content_length after std::stoi produced v (no return statement)
FallOffEnd(v) == (0..MaxGarbage) \cup (IF v >= 0 THEN {v} ELSE {})

\* http_request_parser::_extract_content_length: the outcomes of one call
extract_content_length(hdrs) ==
    IF KEY_CONTENT_LENGTH \notin DOMAIN hdrs
    THEN { [kind |-> "return", v |-> 0] }
    ELSE LET parsed == Stoi(hdrs[KEY_CONTENT_LENGTH])
         IN  CASE parsed.kind = "invalid_argument" ->
                    { [kind |-> "return", v |-> 0] }
               [] parsed.kind = "out_of_range" ->
                    { [kind |-> "throw", v |-> 0] }
               [] OTHER ->
                    { [kind |-> "return", v |-> g] : g \in FallOffEnd(parsed.v) }

\* mutant: the body must be longer than the expected length to finish
check_body_strict(r, len) ==
    LET r1 == [r EXCEPT !.m_content_length = len]
    IN  IF Len(r1.m_header_parser.m_body) > len
        THEN [r1 EXCEPT !.m_body_finished = TRUE,
                        !.m_header_parser.m_body =
                            SubSeq(r1.m_header_parser.m_body, 1, len)]
        ELSE r1

\* lines 251-255 of push_chunk, with the value _extract_content_length returned
check_body(r, len) ==
    LET r1 == [r EXCEPT !.m_content_length = len]
    IN  IF Len(body(r1)) >= len
        THEN [r1 EXCEPT !.m_body_finished = TRUE,
                        !.m_header_parser.m_body = SubSeq(body(r1), 1, len)]
        ELSE r1

\* lines 249-256 of push_chunk: the states the call can leave the parser in,
\* each with whether it threw
forward_chunk(r, c) ==
    LET r1 == [r EXCEPT !.m_header_parser =
                            header_push_chunk(r.m_header_parser, c)]
    IN  IF header_finished(r1.m_header_parser)
        THEN { IF o.kind = "throw"
               THEN [parser |-> r1, threw |-> TRUE]
               ELSE [parser |-> check_body(r1, o.v), threw |-> FALSE] :
                   o \in extract_content_length(headers(r1)) }
        ELSE { [parser |-> r1, threw |-> FALSE] }

\* mutant: a finished parser handed another chunk starts on a new request
request_push_chunk_reuse(r, c) ==
    IF ~header_finished(r.m_header_parser)
    THEN forward_chunk(r, c)
    ELSE IF request_finished(r) /\ c # <<>>
         THEN forward_chunk(NewRequestParser, c)
         ELSE { [parser |-> r, threw |-> FALSE] }

\* http_request_parser::push_chunk
request_push_chunk(r, c) ==
    IF ~header_finished(r.m_header_parser)
    THEN forward_chunk(r, c)
    ELSE { [parser |-> r, threw |-> FALSE] }

----------------------------------------------------------------------------
\* The header parser driven directly: the stream is cut into chunks at
\* arbitrary offsets (an empty chunk included) and each is pushed.

InitHP ==
    /\ rest \in Streams
    /\ pushed = <<>>
    /\ chunk = <<>>
    /\ hp = NewHeaderParser
    /\ rp = NewRequestParser
    /\ whole = NewRequestParser
    /\ thrown = {}
    /\ NoConns

HeaderPush ==
    \E k \in 0..Len(rest) :
        /\ chunk' = SubSeq(rest, 1, k)
        /\ rest' = SubSeq(rest, k + 1, Len(rest))
        /\ pushed' = pushed \o chunk'
        /\ hp' = header_push_chunk(hp, chunk')
        /\ UNCHANGED <<rp, whole, thrown>>
        /\ UNCHANGED conn_vars

NextHP == HeaderPush

SpecHP == InitHP /\ [][NextHP]_vars

----------------------------------------------------------------------------
\* The request parser: rp is fed the stream cut into chunks at arbitrary
\* offsets, whole is fed the same stream in a single push_chunk.

InitRP ==
    /\ rest \in RequestStreams
    /\ pushed = <<>>
    /\ chunk = <<>>
    /\ hp = NewHeaderParser
    /\ rp = NewRequestParser
    /\ whole = NewRequestParser
    /\ thrown = {}
    /\ NoConns

\* the whole input stream
Stream == pushed \o rest

RequestPush ==
    /\ "rp" \notin thrown
    /\ \E k \in 0..Len(rest) :
        /\ chunk' = SubSeq(rest, 1, k)
        /\ rest' = SubSeq(rest, k + 1, Len(rest))
        /\ pushed' = pushed \o chunk'
        /\ \E o \in request_push_chunk(rp, chunk') :
            /\ rp' = o.parser
            /\ thrown' = IF o.threw THEN thrown \cup {"rp"} ELSE thrown
        /\ UNCHANGED <<hp, whole>>
        /\ UNCHANGED conn_vars

PushWhole ==
    /\ whole = NewRequestParser
    /\ "whole" \notin thrown
    /\ \E o \in request_push_chunk(whole, Stream) :
        /\ whole' = o.parser
        /\ thrown' = IF o.threw THEN thrown \cup {"whole"} ELSE thrown
    /\ UNCHANGED <<rest, pushed, chunk, hp, rp>>
    /\ UNCHANGED conn_vars

NextRP == RequestPush \/ PushWhole

SpecRP == InitRP /\ [][NextRP]_vars

----------------------------------------------------------------------------
\* main(): the accept loop and one handler thread per accepted connection.
\* check_error executes `throw;` with no exception being handled, which
\* calls std::terminate: a failed call ends the whole process, and so does
\* an exception that leaves a handler thread.

\* what a peer sends on a connection: a request, in the segments in which
\* it reaches the socket
ConnInputs ==
    { <<CONN_GET>>,
      <<CONN_POST>>,
      <<SubSeq(CONN_POST, 1, 24), SubSeq(CONN_POST, 25, 26)>> }

\* the numbers of bytes a write of len bytes may accept
WriteCounts(len) == {1, len}

\* std::to_string of a size_t
RECURSIVE to_string(_)
to_string(k) ==
    IF k < 10 THEN <<48 + k>> ELSE Append(to_string(k \div 10), 48 + (k % 10))

\* the response of line 287
ComposeResponse(b) == RES_HEAD \o to_string(Len(b)) \o TERMINATOR \o b

InitConn ==
    /\ rest = <<>>
    /\ pushed = <<>>
    /\ chunk = <<>>
    /\ hp = NewHeaderParser
    /\ rp = NewRequestParser
    /\ whole = NewRequestParser
    /\ thrown = {}
    /\ NoConns

\* accept returns a connection and its handler thread is started
Accept ==
    /\ running
    /\ \E c \in ConnIds :
        /\ pc[c] = "idle"
        /\ \A d \in ConnIds : d < c => pc[d] # "idle"
        /\ \E s \in ConnInputs : peer' = [peer EXCEPT ![c] = s]
        /\ pc' = [pc EXCEPT ![c] = "read"]
        /\ fd_open' = [fd_open EXCEPT ![c] = TRUE]
    /\ UNCHANGED <<running, peer_closed, req_parse, n, res, written>>
    /\ UNCHANGED parser_vars

\* accept returns -1: check_error terminates the process
AcceptFails ==
    /\ running
    /\ running' = FALSE
    /\ UNCHANGED <<pc, peer, peer_closed, req_parse, n, res, written, fd_open>>
    /\ UNCHANGED parser_vars

\* the peer closes its end: it sends nothing more
PeerClose(c) ==
    /\ running
    /\ pc[c] # "idle"
    /\ ~peer_closed[c]
    /\ peer_closed' = [peer_closed EXCEPT ![c] = TRUE]
    /\ peer' = [peer EXCEPT ![c] = <<>>]
    /\ UNCHANGED <<running, pc, req_parse, n, res, written, fd_open>>
    /\ UNCHANGED parser_vars

\* one round of the do-while loop with read returning the k >= 0 bytes data
\* and leaving left to the peer: push_chunk, the loop test and, on leaving
\* the loop, line 287
ReadReturns(c, k, data, left) ==
    /\ peer' = [peer EXCEPT ![c] = left]
    /\ n' = [n EXCEPT ![c] = <<k>>]
    /\ \E o \in request_push_chunk(req_parse[c], data) :
        /\ req_parse' = [req_parse EXCEPT ![c] = o.parser]
        /\ IF o.threw
           THEN running' = FALSE /\ UNCHANGED <<pc, res>>
           ELSE /\ running' = TRUE
                /\ IF request_finished(o.parser)
                   THEN /\ pc' = [pc EXCEPT ![c] = "write"]
                        /\ res' = [res EXCEPT ![c] =
                                      ComposeResponse(body(o.parser))]
                   ELSE UNCHANGED <<pc, res>>
    /\ UNCHANGED <<peer_closed, written, fd_open>>
    /\ UNCHANGED parser_vars

\* read returns data: the segment that has arrived, sizeof(buf) bytes at most
ReadData(c) ==
    /\ running
    /\ pc[c] = "read"
    /\ peer[c] # <<>>
    /\ LET seg == Head(peer[c])
           k   == IF Len(seg) <= BufSize THEN Len(seg) ELSE BufSize
       IN  ReadReturns(c, k, SubSeq(seg, 1, k),
               IF k = Len(seg) THEN Tail(peer[c])
               ELSE <<SubSeq(seg, k + 1, Len(seg))>> \o Tail(peer[c]))

\* read returns 0: the peer has closed and nothing is left to read
ReadEof(c) ==
    /\ running
    /\ pc[c] = "read"
    /\ peer_closed[c]
    /\ peer[c] = <<>>
    /\ ReadReturns(c, 0, <<>>, <<>>)

\* read returns -1: check_error terminates the process
ReadFails(c) ==
    /\ running
    /\ pc[c] = "read"
    /\ running' = FALSE
    /\ UNCHANGED <<pc, peer, peer_closed, req_parse, n, res, written, fd_open>>
    /\ UNCHANGED parser_vars

\* the one write of line 289 accepts k bytes of res
Write(c) ==
    /\ running
    /\ pc[c] = "write"
    /\ \E k \in WriteCounts(Len(res[c])) :
        written' = [written EXCEPT ![c] = <<k>>]
    /\ pc' = [pc EXCEPT ![c] = "close"]
    /\ UNCHANGED <<running, peer, peer_closed, req_parse, n, res, fd_open>>
    /\ UNCHANGED parser_vars

\* write returns -1: check_error terminates the process
WriteFails(c) ==
    /\ running
    /\ pc[c] = "write"
    /\ written' = [written EXCEPT ![c] = <<-1>>]
    /\ running' = FALSE
    /\ UNCHANGED <<pc, peer, peer_closed, req_parse, n, res, fd_open>>
    /\ UNCHANGED parser_vars

\* close(connid); the handler returns
Close(c) ==
    /\ running
    /\ pc[c] = "close"
    /\ fd_open' = [fd_open EXCEPT ![c] = FALSE]
    /\ pc' = [pc EXCEPT ![c] = "done"]
    /\ UNCHANGED <<running, peer, peer_closed, req_parse, n, res, written>>
    /\ UNCHANGED parser_vars

NextConn ==
    \/ Accept
    \/ AcceptFails
    \/ \E c \in ConnIds : PeerClose(c)
    \/ \E c \in ConnIds : ReadData(c)
    \/ \E c \in ConnIds : ReadEof(c)
    \/ \E c \in ConnIds : ReadFails(c)
    \/ \E c \in ConnIds : Write(c)
    \/ \E c \in ConnIds : WriteFails(c)
    \/ \E c \in ConnIds : Close(c)

SpecConn == InitConn /\ [][NextConn]_vars

----------------------------------------------------------------------------
\* Vocabulary of the properties.

\* s contains the 4-byte sequence CR LF CR LF
HasTerminator(s) ==
    \E i \in 1..(Len(s) - 3) :
        s[i] = 13 /\ s[i + 1] = 10 /\ s[i + 2] = 13 /\ s[i + 3] = 10

\* the bytes of s that follow its first CR LF CR LF
AfterTerminator(s) ==
    LET i == SetMin({ j \in 1..(Len(s) - 3) :
                        SubSeq(s, j, j + 3) = <<13, 10, 13, 10>> })
    IN  SubSeq(s, i + 4, Len(s))

\* the content length a header map declares: the decimal value of its
\* content-length entry, 0 when there is none or it is no non-negative integer
DeclaresLength(hdrs) ==
    /\ KEY_CONTENT_LENGTH \in DOMAIN hdrs
    /\ Stoi(hdrs[KEY_CONTENT_LENGTH]).kind = "value"
    /\ Stoi(hdrs[KEY_CONTENT_LENGTH]).v >= 0

DeclaredLength(hdrs) ==
    IF DeclaresLength(hdrs) THEN Stoi(hdrs[KEY_CONTENT_LENGTH]).v ELSE 0

\* s is a header block, the terminator and a body of the declared length
WellFormed(s) ==
    /\ HasTerminator(s)
    /\ LET h == header_push_chunk(NewHeaderParser, s)
       IN  /\ KEY_CONTENT_LENGTH \in DOMAIN h.m_header_keys
                => DeclaresLength(h.m_header_keys)
           /\ Len(AfterTerminator(s)) = DeclaredLength(h.m_header_keys)

\* what a caller observes of a request parser
Observed(r) == <<request_finished(r), headers(r), body(r)>>

----------------------------------------------------------------------------
\* C1: for a well-formed request, pushing it cut into chunks ends in the
\* same (request_finished, headers, body) as pushing it in one chunk.
C1_ChunkedEqualsWhole ==
    (WellFormed(Stream) /\ rest = <<>> /\ whole # NewRequestParser)
        => Observed(rp) = Observed(whole)

\* C2: when headers are finished and the body is still short of the expected
\* length, a later push_chunk(c) appends c to the body, and the request is
\* finished as soon as the body holds the expected number of bytes.
C2_LaterPushAppends ==
    [][ ( /\ header_finished(rp.m_header_parser)
          /\ ~request_finished(rp)
          /\ pushed' # pushed )
        => LET grown == body(rp) \o chunk'
           IN  IF Len(grown) >= rp.m_content_length
               THEN request_finished(rp')
               ELSE ~request_finished(rp') /\ body(rp') = grown ]_vars

\* C3: when read returns 0 while the request is unfinished, the handler
\* leaves the read loop for a terminal outcome: it neither reads again nor
\* goes on to send the 200 response.
C3_EofIsTerminal ==
    \A c \in ConnIds :
        (running /\ n[c] = <<0>> /\ ~request_finished(req_parse[c]))
            => pc[c] \notin {"read", "write"}

\* C4: the body never exceeds the declared content length while the request
\* is unfinished, and has exactly that length once it is finished.
C4_BodyWithinDeclared ==
    /\ ~header_finished(rp.m_header_parser) => body(rp) = <<>>
    /\ header_finished(rp.m_header_parser) =>
          IF request_finished(rp)
          THEN Len(body(rp)) = DeclaredLength(headers(rp))
          ELSE Len(body(rp)) <= DeclaredLength(headers(rp))

\* C5: when more than the declared N bytes have arrived after the
\* terminator, the request is finished and its body is the first N of them.
C5_OvershootTruncated ==
    ( /\ HasTerminator(pushed)
      /\ DeclaresLength(headers(rp))
      /\ Len(AfterTerminator(pushed)) > DeclaredLength(headers(rp)) )
    => /\ request_finished(rp)
       /\ body(rp) = SubSeq(AfterTerminator(pushed), 1,
                            DeclaredLength(headers(rp)))

\* C6 as stated: "GET / HTTP/1.1\r\nHost: x\r\n\r\nhello" pushed as one chunk
\* leaves the request finished with headers {"host": "x"} and body "hello".
C6_SinglePushKeepsHello ==
    (Stream = REQ_HOST_HELLO /\ whole # NewRequestParser)
        => /\ request_finished(whole)
           /\ headers(whole) = [k \in {KEY_HOST} |-> VAL_X]
           /\ body(whole) = HELLO

\* C6 amended: the same single push leaves the request finished with headers
\* {"host": "x"} and an empty body: without a content-length header the
\* expected length is 0 and the body is cut to it.
C6_SinglePushEmptyBody ==
    (Stream = REQ_HOST_HELLO /\ whole # NewRequestParser)
        => /\ request_finished(whole)
           /\ headers(whole) = [k \in {KEY_HOST} |-> VAL_X]
           /\ body(whole) = <<>>

C6_Witness ==
    /\ Stream = REQ_HOST_HELLO
    /\ whole # NewRequestParser
    /\ "whole" \notin thrown

\* C7: without a content-length header and without bytes after the
\* terminator, the request is finished, with an empty body, in the state
\* right after the push_chunk that completes the terminator, however the
\* header bytes were cut.
C7_FinishedAtTerminator ==
    ( /\ HasTerminator(pushed)
      /\ AfterTerminator(pushed) = <<>>
      /\ KEY_CONTENT_LENGTH \notin DOMAIN headers(rp) )
    => request_finished(rp) /\ body(rp) = <<>>

\* the terminator of "GET /\r\nHost: x\r\n\r\n" completed by a chunk of its own
C7_Witness ==
    /\ pushed = REQ_HOST
    /\ chunk = <<10>>
    /\ request_finished(rp)

\* C8: as long as the chunks pushed so far do not contain CR LF CR LF,
\* header_finished() is false, and so is request_finished().
C8_NoTerminatorNeverFinished ==
    ~HasTerminator(pushed)
        => ~header_finished(rp.m_header_parser) /\ ~request_finished(rp)

\* a near miss pushed in several chunks: "\r\n\r" then "\r\n"
C8_Witness ==
    /\ pushed = <<13, 10, 13, 13, 10>>
    /\ chunk = <<13, 10>>
    /\ ~header_finished(rp.m_header_parser)

\* C9: header_finished() and request_finished() never go back to false,
\* and request_finished() is never true while header_finished() is false.
C9_PhaseMonotonic ==
    /\ [][ /\ header_finished(rp.m_header_parser)
                => header_finished(rp'.m_header_parser)
           /\ request_finished(rp) => request_finished(rp') ]_vars
    /\ [](request_finished(rp) => header_finished(rp.m_header_parser))

\* a non-empty chunk pushed to a request parser that was already finished
C9_Witness ==
    /\ request_finished(rp)
    /\ chunk # <<>>
    /\ Len(pushed) > Len(headers_raw(rp)) + 4 + Len(chunk)

\* C10: once header_finished() is true, http11_header_parser::push_chunk
\* changes none of headers_raw, the request line, the header map and the
\* extra body.
C10_FinishedPushIsNoOp ==
    [][ header_finished(hp) => hp' = hp ]_vars

\* a non-empty chunk pushed to a header parser that was already finished
C10_Witness ==
    /\ header_finished(hp)
    /\ chunk # <<>>
    /\ Len(pushed) > Len(hp.m_header) + 4 + Len(hp.m_body)

\* C11: once header_finished() is true, headers_raw holds no CR LF CR LF.
C11_RawHasNoTerminator ==
    header_finished(hp) => ~HasTerminator(hp.m_header)

\* "a\r\n\r\n" pushed: the accumulator keeps "a" alone
C11_Witness ==
    /\ header_finished(hp)
    /\ pushed = <<97, 13, 10, 13, 10>>
    /\ hp.m_header = <<97>>

\* C12: no key of the header map holds an ASCII upper-case letter, and
\* "Content-Length", "content-length" and "CONTENT-LENGTH" are all found
\* under the key "content-length" with the value sent.
C12_KeysAreLowerCase ==
    /\ \A k \in DOMAIN hp.m_header_keys :
          \A i \in 1..Len(k) : ~(65 <= k[i] /\ k[i] <= 90)
    /\ (header_finished(hp) /\ Stream \in {REQ_CL5, REQ_CL5_OVER, REQ_CL5_UPPER})
          => /\ KEY_CONTENT_LENGTH \in DOMAIN hp.m_header_keys
             /\ hp.m_header_keys[KEY_CONTENT_LENGTH] = <<53>>

\* the header block that spells the name in upper case has been parsed
C12_Witness ==
    /\ header_finished(hp)
    /\ Stream = REQ_CL5_UPPER
    /\ DOMAIN hp.m_header_keys # {}

\* The header lines of a header block h, read off declaratively: a line
\* starts behind each CR LF and runs up to the next CR LF or the end.
CrlfAt(h) == { i \in 0..(Len(h) - 2) : h[i + 1] = 13 /\ h[i + 2] = 10 }

SetMax(S) == CHOOSE x \in S : \A y \in S : x >= y

LineAt(h, p) ==
    LET ends == { q \in CrlfAt(h) : q >= p }
    IN  SubSeq(h, p + 1, IF ends = {} THEN Len(h) ELSE SetMin(ends))

ColonsOf(line) ==
    { j \in 1..(Len(line) - 1) : line[j] = 58 /\ line[j + 1] = 32 }

NameOf(line) ==
    LET name == SubSeq(line, 1, SetMin(ColonsOf(line)) - 1)
    IN  [i \in 1..Len(name) |->
            IF name[i] \in 65..90 THEN name[i] + 32 ELSE name[i]]

ValueOf(line) == SubSeq(line, SetMin(ColonsOf(line)) + 2, Len(line))

\* the positions at which a header line with a ": " starts
HeaderLineStarts(h) ==
    { p \in { i + 2 : i \in CrlfAt(h) } : ColonsOf(LineAt(h, p)) # {} }

\* C13: the header map has one key per lower-cased header name, and its
\* value is that of the last line of the header block with that name.
C13_LastOccurrenceWins ==
    header_finished(hp) =>
        LET h      == hp.m_header
            starts == HeaderLineStarts(h)
        IN  /\ DOMAIN hp.m_header_keys = { NameOf(LineAt(h, p)) : p \in starts }
            /\ \A k \in DOMAIN hp.m_header_keys :
                  hp.m_header_keys[k] =
                      ValueOf(LineAt(h, SetMax({ p \in starts :
                                                   NameOf(LineAt(h, p)) = k })))

\* "k: 1", "K: 2", "k: 3" parsed: k maps to "3"
C13_Witness ==
    /\ header_finished(hp)
    /\ Stream = REQ_DUP3
    /\ hp.m_header_keys[<<107>>] = <<51>>

\* C14: a handler stops writing only when write has accepted every byte of
\* the response: once it is at or past close, the whole of res was written.
C14_WholeResponseWritten ==
    \A c \in ConnIds :
        pc[c] \in {"close", "done"} => written[c] = <<Len(res[c])>>

\* C15: whatever write returned (all of the response, part of it, or -1),
\* the handler goes on to close the connection.
C15_WriteReturnLeadsToClose ==
    \A c \in ConnIds :
        written[c] # <<>> => pc[c] \in {"close", "done"}

\* C16: when read or write fails on one connection, the process (the accept
\* loop and the handlers of the other connections) keeps running.
C16_IoFailureIsLocal ==
    [][ (\E c \in ConnIds : ReadFails(c) \/ WriteFails(c)) => running' ]_vars

\* what belongs to the handler of connection c
Local(c) ==
    <<pc[c], peer[c], peer_closed[c], req_parse[c], n[c], res[c],
      written[c], fd_open[c]>>

\* a step of the handler thread of connection d
HandlerStep(d) ==
    \/ ReadData(d)
    \/ ReadEof(d)
    \/ ReadFails(d)
    \/ Write(d)
    \/ WriteFails(d)
    \/ Close(d)

\* C17: a step of the handler of one connection changes nothing that belongs
\* to another connection and leaves the handler of every other connection
\* that has not answered yet able to go on to its answer.
C17_HandlersAreIsolated ==
    [][ \A c, d \in ConnIds :
           (c # d /\ HandlerStep(d)) =>
               /\ Local(c)' = Local(c)
               /\ (pc[c] \in {"read", "write"} => running') ]_vars

\* C18: once the headers are finished, a header map without content-length,
\* or with a content-length that is not a non-negative integer, gives the
\* expected body length 0, and push_chunk has raised no error.
C18_MissingOrInvalidLengthIsZero ==
    (header_finished(rp.m_header_parser) /\ ~DeclaresLength(headers(rp)))
        => (rp.m_content_length = 0 /\ "rp" \notin thrown)

\* the first line of the header block s: what precedes its first CRLF
RequestLine(s) ==
    LET eol == Find(s, CRLF, 0)
    IN  IF eol = NPOS THEN s ELSE Substr(s, 0, eol)

\* C19: after the headers are finished, method() is the part of the request
\* line before its first space, and "GET" when the line has no space.
C19_MethodIsFirstWord ==
    header_finished(rp.m_header_parser) =>
        LET line == RequestLine(headers_raw(rp))
            space == Find(line, SPACE, 0)
        IN  method(rp) = (IF space # NPOS THEN Substr(line, 0, space) ELSE GET)

\* C20: while the headers are not finished, the raw headers are all the bytes
\* pushed so far and the extra body and the header map are empty; the push
\* that finishes the headers leaves raw headers, CRLF CRLF and extra body
\* that together are all the bytes pushed, split at the first CRLF CRLF.
C20_BytesAreConserved ==
    /\ [](~header_finished(hp) =>
              /\ hp.m_header = pushed
              /\ hp.m_body = <<>>
              /\ hp.m_header_keys = EmptyMap)
    /\ [][ (~header_finished(hp) /\ header_finished(hp')) =>
              /\ hp'.m_header \o TERMINATOR \o hp'.m_body = pushed'
              /\ Len(hp'.m_header) = Find(pushed', TERMINATOR, 0) ]_vars

\* the headers were finished by a later chunk than the first, with bytes
\* left over behind the terminator
C20_Witness ==
    /\ header_finished(hp)
    /\ Len(chunk) < Len(pushed)
    /\ hp.m_body # <<>>
    /\ hp.m_header # <<>>
    /\ hp.m_header \o TERMINATOR \o hp.m_body = pushed

====
